---- MODULE Spec2Model ----
(***************************************************************************)
(* Model of filetreelist's FileTree (src/filetreelist/src/filetree.rs):    *)
(* a selection cursor over a flattened, collapsible file tree.             *)
(*                                                                         *)
(* Absolute indices are 0-based as in the source: tree_items is a function *)
(* with domain 0..len-1.  Option<T> is a sequence of length at most one:   *)
(* None is <<>>, Some(x) is <<x>>.                                         *)
(***************************************************************************)
EXTENDS Integers, Sequences, FiniteSets, TLC

\* ------------------------------------------------------------------ bounds
\* largest number of flattened nodes of the exhaustively enumerated trees
MaxNodes == 4
\* largest window height the UI sets
MaxHeight == 4

\* ------------------------------------------------------------------ Option
None == <<>>
Some(x) == <<x>>
is_some(o) == o # <<>>
unwrap(o) == o[1]

Min(a, b) == IF a < b THEN a ELSE b

saturating_sub(a, b) == IF a >= b THEN a - b ELSE 0

\* the half-open range a..b of Rust, ascending, as a sequence
RangeAsc(a, b) == IF b > a THEN [k \in 1..(b - a) |-> a + k - 1] ELSE <<>>

\* the range (0..=hi).rev() of Rust, as a sequence
RangeRev(hi) == [k \in 1..(hi + 1) |-> hi + 1 - k]

\* --------------------------------------------------- the flattened item store
\* MoveSelection
Commands == {"Up", "Down", "Left", "Right", "Top", "End",
             "PageDown", "PageUp", "HalfPageDown", "HalfPageUp"}

\* all indent sequences of n nodes in flattened (pre-order) position:
\* the first node is at the root level and a node is at most one level
\* deeper than the node before it
RECURSIVE IndentLists(_)
IndentLists(n) ==
    IF n = 0 THEN {<<>>}
    ELSE IF n = 1 THEN {<<0>>}
    ELSE UNION {{Append(s, d) : d \in 0..(s[Len(s)] + 1)} : s \in IndentLists(n - 1)}

\* the trees of the unit tests
\* ["a/b/c", "a/d"] -> a/, b/, c, d
TestTree4 == <<0, 1, 2, 1>>
\* ["a/b/c", "a/b/c2", "a/d"] -> a/, b/, c, c2, d
TestTree5 == <<0, 1, 2, 2, 1>>
\* ["a/b/c", "a/b/c2", "a/d", "a/e"] -> a/, b/, c, c2, d, e
TestTree6 == <<0, 1, 2, 2, 1, 1>>

\* the path lists a tree is built from, given by the indents of their nodes
PathLists ==
    UNION {IndentLists(n) : n \in 0..MaxNodes} \cup {TestTree4, TestTree5, TestTree6}

Len0(items) == Cardinality(DOMAIN items)

\* a node is a directory iff the node after it lies one level deeper
IsDirAt(ind, i) == i + 1 < Len(ind) /\ ind[i + 2] > ind[i + 1]

\* the strict ancestors of node i
Ancestors(items, i) ==
    {j \in DOMAIN items :
        /\ j < i
        /\ items[j].indent < items[i].indent
        /\ \A k \in (j + 1)..i : items[k].indent > items[j].indent}

\* the strict descendants of node i
Descendants(items, i) ==
    {d \in DOMAIN items :
        /\ d > i
        /\ \A k \in (i + 1)..d : items[k].indent > items[i].indent}

\* a node is shown iff every strict ancestor directory is expanded
Shown(items, i) == \A a \in Ancestors(items, i) : ~items[a].collapsed

\* FileTreeItems::new
ItemsNew(ind, cs) ==
    LET raw == [i \in 0..(Len(ind) - 1) |->
                   [is_path |-> IsDirAt(ind, i),
                    collapsed |-> IsDirAt(ind, i) /\ i \in cs,
                    indent |-> ind[i + 1],
                    visible |-> TRUE]]
    IN [i \in DOMAIN raw |-> [raw[i] EXCEPT !.visible = Shown(raw, i)]]

\* FileTreeItems::len
items_len(items) == Len0(items)

\* FileTreeItems::file_count
file_count(items) == Cardinality({i \in DOMAIN items : ~items[i].is_path})

\* FileTreeItems::collapse
collapse(items, index, recursive) ==
    IF ~items[index].is_path THEN items
    ELSE LET D == Descendants(items, index)
         IN [i \in DOMAIN items |->
                IF i = index THEN [items[i] EXCEPT !.collapsed = TRUE]
                ELSE IF i \in D
                     THEN [items[i] EXCEPT
                              !.visible = FALSE,
                              !.collapsed = IF recursive /\ items[i].is_path
                                            THEN TRUE ELSE @]
                     ELSE items[i]]

\* FileTreeItems::expand
expand(items, index, recursive) ==
    IF ~items[index].is_path THEN items
    ELSE LET D == Descendants(items, index)
             flags == [i \in DOMAIN items |->
                          IF i = index \/ (recursive /\ i \in D /\ items[i].is_path)
                          THEN [items[i] EXCEPT !.collapsed = FALSE]
                          ELSE items[i]]
         IN [i \in DOMAIN items |->
                IF i \in D THEN [flags[i] EXCEPT !.visible = Shown(flags, i)]
                ELSE flags[i]]

\* FileTreeItems::show_element
show_element(items, index) ==
    LET A == Ancestors(items, index)
        flags == [i \in DOMAIN items |->
                     IF i \in A THEN [items[i] EXCEPT !.collapsed = FALSE]
                     ELSE items[i]]
    IN [i \in DOMAIN items |-> [flags[i] EXCEPT !.visible = Shown(flags, i)]]

\* FileTreeItems::iterate: the visible absolute indices from start on,
\* ascending, at most max of them
iterate(items, start, max) ==
    LET vis == SelectSeq(RangeAsc(start, items_len(items)),
                         LAMBDA i : items[i].visible)
    IN SubSeq(vis, 1, Min(max, Len(vis)))

\* TreeItemInfo::full_path: every node has a path of its own
full_path(items, i) == i

\* ------------------------------------------------------------------ FileTree
\* Direction
Directions == {"Up", "Down"}

\* FileTree::is_visible_index
is_visible_index(items, index) ==
    index \in DOMAIN items /\ items[index].visible

\* get_new_selection without the filter on visible indices
get_new_selection_unfiltered(items, range, take) ==
    LET taken == SubSeq(range, 1, Min(take, Len(range)))
    IN IF Len(taken) = 0 THEN None ELSE Some(taken[Len(taken)])

\* FileTree::get_new_selection: filter the range to the visible indices,
\* take the first `take` of them, keep the last one taken
get_new_selection(items, range, take) ==
    LET vis == SelectSeq(range, LAMBDA i : is_visible_index(items, i))
        taken == SubSeq(vis, 1, Min(take, Len(vis)))
    IN IF Len(taken) = 0 THEN None ELSE Some(taken[Len(taken)])

\* Option<usize>::unwrap_or(0) of the window height
unwrap_or_0(o) == IF is_some(o) THEN unwrap(o) ELSE 0

\* selection_page_updown with a range that leaves out the current index
selection_page_updown_exclusive(items, wh, current_index, direction) ==
    LET page_size == unwrap_or_0(wh)
    IN IF direction = "Up"
       THEN get_new_selection(items, RangeRev(current_index - 1), page_size)
       ELSE get_new_selection(items,
                              RangeAsc(current_index + 1, items_len(items)),
                              page_size)

\* FileTree::selection_page_updown
selection_page_updown(items, wh, current_index, direction) ==
    LET page_size == unwrap_or_0(wh)
    IN IF direction = "Up"
       THEN get_new_selection(items, RangeRev(current_index), page_size)
       ELSE get_new_selection(items, RangeAsc(current_index, items_len(items)),
                              page_size)

\* FileTree::selection_half_page_updown
selection_half_page_updown(items, wh, current_index, direction) ==
    LET page_size == unwrap_or_0(wh) \div 2
    IN IF direction = "Up"
       THEN get_new_selection(items, RangeRev(current_index), page_size)
       ELSE get_new_selection(items, RangeAsc(current_index, items_len(items)),
                              page_size)

\* selection_end that takes the last index without looking at its visibility
selection_end_unfiltered(items) ==
    LET items_max == saturating_sub(items_len(items), 1)
    IN Some(items_max)

\* FileTree::selection_end
selection_end(items) ==
    LET items_max == saturating_sub(items_len(items), 1)
    IN get_new_selection(items, RangeRev(items_max), 1)

\* selection_updown whose Down range starts at the current index
selection_updown_from_current(items, current_index, direction) ==
    IF direction = "Up"
    THEN get_new_selection(items, RangeRev(saturating_sub(current_index, 1)), 1)
    ELSE get_new_selection(items,
                           RangeAsc(current_index, items_len(items)), 1)

\* selection_updown whose Up range ends before the index below the current one
selection_updown_short_up(items, current_index, direction) ==
    IF direction = "Up"
    THEN get_new_selection(items,
                           RangeRev(saturating_sub(current_index, 1) - 1), 1)
    ELSE get_new_selection(items,
                           RangeAsc(current_index + 1, items_len(items)), 1)

\* FileTree::selection_updown
selection_updown(items, current_index, direction) ==
    IF direction = "Up"
    THEN get_new_selection(items, RangeRev(saturating_sub(current_index, 1)), 1)
    ELSE get_new_selection(items,
                           RangeAsc(current_index + 1, items_len(items)), 1)

\* select_parent that accepts an index of the same indent
select_parent_same_indent(items, current_index) ==
    LET current_indent == items[current_index].indent
        vis == SelectSeq(RangeRev(current_index),
                         LAMBDA i : is_visible_index(items, i))
        found == SelectSeq(vis, LAMBDA i : items[i].indent <= current_indent)
    IN IF Len(found) = 0 THEN None ELSE Some(found[1])

\* FileTree::select_parent: the first visible index, from current_index
\* downwards, whose indent is smaller than that of current_index
select_parent(items, current_index) ==
    LET current_indent == items[current_index].indent
        vis == SelectSeq(RangeRev(current_index),
                         LAMBDA i : is_visible_index(items, i))
        found == SelectSeq(vis, LAMBDA i : items[i].indent < current_indent)
    IN IF Len(found) = 0 THEN None ELSE Some(found[1])

\* selection_left that collapses the directory recursively
selection_left_recursive(items, current_index) ==
    LET item == items[current_index]
    IN IF item.is_path /\ ~item.collapsed
       THEN [items |-> collapse(items, current_index, TRUE),
             index |-> Some(current_index)]
       ELSE [items |-> items, index |-> select_parent(items, current_index)]

\* selection_left that goes on to the parent after collapsing
selection_left_to_parent(items, current_index) ==
    LET item == items[current_index]
    IN IF item.is_path /\ ~item.collapsed
       THEN [items |-> collapse(items, current_index, FALSE),
             index |-> select_parent(items, current_index)]
       ELSE [items |-> items, index |-> select_parent(items, current_index)]

\* FileTree::selection_left: the landing index and the items it leaves
selection_left(items, current_index) ==
    LET item == items[current_index]
    IN IF item.is_path /\ ~item.collapsed
       THEN [items |-> collapse(items, current_index, FALSE),
             index |-> Some(current_index)]
       ELSE [items |-> items, index |-> select_parent(items, current_index)]

\* selection_right that stays on an already expanded directory
selection_right_stay(items, current_selection) ==
    LET item == items[current_selection]
    IN IF item.is_path
       THEN IF item.collapsed
            THEN [items |-> expand(items, current_selection, FALSE),
                  index |-> Some(current_selection)]
            ELSE [items |-> items, index |-> Some(current_selection)]
       ELSE [items |-> items, index |-> None]

\* selection_right that expands the directory recursively
selection_right_recursive(items, current_selection) ==
    LET item == items[current_selection]
    IN IF item.is_path
       THEN IF item.collapsed
            THEN [items |-> expand(items, current_selection, TRUE),
                  index |-> Some(current_selection)]
            ELSE [items |-> items,
                  index |-> selection_updown(items, current_selection, "Down")]
       ELSE [items |-> items, index |-> None]

\* FileTree::selection_right: the landing index and the items it leaves
selection_right(items, current_selection) ==
    LET item == items[current_selection]
    IN IF item.is_path
       THEN IF item.collapsed
            THEN [items |-> expand(items, current_selection, FALSE),
                  index |-> Some(current_selection)]
            ELSE [items |-> items,
                  index |-> selection_updown(items, current_selection, "Down")]
       ELSE [items |-> items, index |-> None]

\* calc_visual_selection that scans every node, visible or not
calc_visual_selection_all(items, sel) ==
    IF ~is_some(sel) THEN None
    ELSE LET it == RangeAsc(0, items_len(items))
             count == Len(it)
             hit == {k \in 1..count : it[k] = unwrap(sel)}
             visual_index == IF hit = {} THEN 0 ELSE (CHOOSE k \in hit : TRUE) - 1
         IN Some([count |-> count, index |-> visual_index])

\* calc_visual_selection that records the index after counting the node
calc_visual_selection_late(items, sel) ==
    IF ~is_some(sel) THEN None
    ELSE LET it == iterate(items, 0, items_len(items))
             count == Len(it)
             hit == {k \in 1..count : it[k] = unwrap(sel)}
             visual_index == IF hit = {} THEN 0 ELSE (CHOOSE k \in hit : TRUE)
         IN Some([count |-> count, index |-> visual_index])

\* FileTree::calc_visual_selection
calc_visual_selection(items, sel) ==
    IF ~is_some(sel) THEN None
    ELSE LET it == iterate(items, 0, items_len(items))
             count == Len(it)
             hit == {k \in 1..count : it[k] = unwrap(sel)}
             visual_index == IF hit = {} THEN 0 ELSE (CHOOSE k \in hit : TRUE) - 1
         IN Some([count |-> count, index |-> visual_index])

\* visual_index_to_absolute that takes the visual index for the absolute one
visual_index_to_absolute_same(items, visual_index) ==
    IF visual_index < Len(iterate(items, 0, items_len(items)))
    THEN Some(visual_index)
    ELSE None

\* FileTree::visual_index_to_absolute: the absolute index of the
\* visual_index-th pair of the scan from absolute index 0
visual_index_to_absolute(items, visual_index) ==
    LET it == iterate(items, 0, items_len(items))
        found == {k \in 1..Len(it) : k - 1 = visual_index}
    IN IF found = {} THEN None ELSE Some(it[CHOOSE k \in found : TRUE])

\* Option<usize>::unwrap_or_default
unwrap_or_default(o) == IF is_some(o) THEN unwrap(o) ELSE 0

\* FileTree::iterate: the pairs the TreeIterator yields, the absolute index
\* and whether it is the selected one
FileTreeIterate(items, sel, start_index_visual, max_amount) ==
    LET start == unwrap_or_default(
                    visual_index_to_absolute(items, start_index_visual))
        it == iterate(items, start, max_amount)
    IN [k \in 1..Len(it) |-> [index |-> it[k], selected |-> sel = Some(it[k])]]

\* FileTree::is_empty
is_empty(items) == file_count(items) = 0

\* the match of FileTree::move_selection on the command
new_index_of(items, wh, sel, dir) ==
    CASE dir = "Up" -> [items |-> items, index |-> selection_updown(items, sel, "Up")]
      [] dir = "Down" -> [items |-> items, index |-> selection_updown(items, sel, "Down")]
      [] dir = "Left" -> selection_left(items, sel)
      [] dir = "Right" -> selection_right(items, sel)
      [] dir = "Top" -> [items |-> items, index |-> Some(0)]
      [] dir = "End" -> [items |-> items, index |-> selection_end(items)]
      [] dir = "PageUp" ->
            [items |-> items, index |-> selection_page_updown(items, wh, sel, "Up")]
      [] dir = "PageDown" ->
            [items |-> items, index |-> selection_page_updown(items, wh, sel, "Down")]
      [] dir = "HalfPageUp" ->
            [items |-> items,
             index |-> selection_half_page_updown(items, wh, sel, "Up")]
      [] dir = "HalfPageDown" ->
            [items |-> items,
             index |-> selection_half_page_updown(items, wh, sel, "Down")]

\* move_selection that recomputes the cache whenever an index is resolved
move_selection_always_recalc(items, sel, vs, wh, dir) ==
    IF ~is_some(sel)
    THEN [items |-> items, selection |-> sel, visual_selection |-> vs,
          ret |-> FALSE]
    ELSE LET selection0 == unwrap(sel)
             r == new_index_of(items, wh, selection0, dir)
             new_index == r.index
             changed_index == is_some(new_index) /\ unwrap(new_index) # selection0
         IN [items |-> r.items,
             selection |-> IF changed_index THEN new_index ELSE sel,
             visual_selection |->
                 IF is_some(new_index)
                 THEN calc_visual_selection(r.items, new_index)
                 ELSE vs,
             ret |-> changed_index \/ is_some(new_index)]

\* move_selection that never recomputes the cache
move_selection_no_recalc(items, sel, vs, wh, dir) ==
    IF ~is_some(sel)
    THEN [items |-> items, selection |-> sel, visual_selection |-> vs,
          ret |-> FALSE]
    ELSE LET selection0 == unwrap(sel)
             r == new_index_of(items, wh, selection0, dir)
             new_index == r.index
             changed_index == is_some(new_index) /\ unwrap(new_index) # selection0
         IN [items |-> r.items,
             selection |-> IF changed_index THEN new_index ELSE sel,
             visual_selection |-> vs,
             ret |-> changed_index \/ is_some(new_index)]

\* move_selection that returns only whether the index changed
move_selection_changed_only(items, sel, vs, wh, dir) ==
    IF ~is_some(sel)
    THEN [items |-> items, selection |-> sel, visual_selection |-> vs,
          ret |-> FALSE]
    ELSE LET selection0 == unwrap(sel)
             r == new_index_of(items, wh, selection0, dir)
             new_index == r.index
             changed_index == is_some(new_index) /\ unwrap(new_index) # selection0
         IN [items |-> r.items,
             selection |-> IF changed_index THEN new_index ELSE sel,
             visual_selection |->
                 IF changed_index THEN calc_visual_selection(r.items, new_index)
                 ELSE vs,
             ret |-> changed_index]

\* FileTree::move_selection: the tree it leaves and the value it returns
move_selection(items, sel, vs, wh, dir) ==
    IF ~is_some(sel)
    THEN [items |-> items, selection |-> sel, visual_selection |-> vs,
          ret |-> FALSE]
    ELSE LET selection0 == unwrap(sel)
             r == new_index_of(items, wh, selection0, dir)
             new_index == r.index
             changed_index == is_some(new_index) /\ unwrap(new_index) # selection0
         IN [items |-> r.items,
             selection |-> IF changed_index THEN new_index ELSE sel,
             visual_selection |->
                 IF changed_index THEN calc_visual_selection(r.items, new_index)
                 ELSE vs,
             ret |-> changed_index \/ is_some(new_index)]

\* the position() of FileTree::select_file: the first node with that path
position_of(items, path) ==
    LET hits == {i \in DOMAIN items : full_path(items, i) = path}
    IN IF hits = {} THEN None
       ELSE Some(CHOOSE i \in hits : \A j \in hits : i <= j)

\* select_file that does not show the element it selects
select_file_no_show(items, sel, vs, path) ==
    LET new_selection == position_of(items, path)
    IN IF new_selection = sel
       THEN [items |-> items, selection |-> sel, visual_selection |-> vs,
             ret |-> FALSE]
       ELSE [items |-> items, selection |-> new_selection,
             visual_selection |-> calc_visual_selection(items, new_selection),
             ret |-> TRUE]

\* FileTree::select_file: the tree it leaves and the value it returns
select_file(items, sel, vs, path) ==
    LET new_selection == position_of(items, path)
    IN IF new_selection = sel
       THEN [items |-> items, selection |-> sel, visual_selection |-> vs,
             ret |-> FALSE]
       ELSE LET shown == IF is_some(new_selection)
                         THEN show_element(items, unwrap(new_selection))
                         ELSE items
            IN [items |-> shown, selection |-> new_selection,
                visual_selection |-> calc_visual_selection(shown, new_selection),
                ret |-> TRUE]

\* FileTree::collapse_but_root
collapse_but_root(items) ==
    IF ~is_empty(items)
    THEN expand(collapse(items, 0, TRUE), 0, FALSE)
    ELSE items

\* FileTree::collapse_recursive
collapse_recursive(items, sel) ==
    IF is_some(sel) THEN collapse(items, unwrap(sel), TRUE) ELSE items

\* FileTree::expand_recursive
expand_recursive(items, sel) ==
    IF is_some(sel) THEN expand(items, unwrap(sel), TRUE) ELSE items

\* ------------------------------------------------------------------- state
VARIABLES
    tree_items,        \* FileTree.items.tree_items
    selection,         \* FileTree.selection
    visual_selection,  \* FileTree.visual_selection
    window_height,     \* FileTree.window_height
    last_call,         \* the operation called last
    last_arg,          \* the path select_file was called with last
    ret,               \* the value the last call returned
    prev               \* FileTree.selection before the last call

vars == <<tree_items, selection, visual_selection, window_height,
          last_call, last_arg, ret, prev>>

\* the directories of a path list
DirsOf(ind) == {i \in 0..(Len(ind) - 1) : IsDirAt(ind, i)}

\* FileTree::new
Init ==
    \E list \in PathLists : \E collapsed \in SUBSET DirsOf(list) :
        /\ tree_items = ItemsNew(list, collapsed)
        /\ selection = IF Len(list) = 0 THEN None ELSE Some(0)
        /\ visual_selection =
              calc_visual_selection(ItemsNew(list, collapsed),
                                    IF Len(list) = 0 THEN None ELSE Some(0))
        /\ window_height = None
        /\ last_call = "new"
        /\ last_arg = 0
        /\ ret = TRUE
        /\ prev = None

\* FileTree::move_selection
MoveSelection(dir) ==
    LET r == move_selection(tree_items, selection, visual_selection,
                            window_height, dir)
    IN /\ tree_items' = r.items
       /\ selection' = r.selection
       /\ visual_selection' = r.visual_selection
       /\ ret' = r.ret
       /\ last_call' = dir
       /\ last_arg' = 0
       /\ prev' = selection
       /\ UNCHANGED window_height

\* the paths select_file is called with: one for every node of the largest
\* tree, and one more
PathArgs ==
    0..(IF MaxNodes > Len(TestTree6) THEN MaxNodes ELSE Len(TestTree6))

\* the paths that differ for a tree: the path of every node of the tree, and
\* one path that no node has, which stands for every other unmatched path
Paths(items) == 0..items_len(items)

\* FileTree::select_file
SelectFile(path) ==
    LET r == select_file(tree_items, selection, visual_selection, path)
    IN /\ path \in Paths(tree_items)
       /\ tree_items' = r.items
       /\ selection' = r.selection
       /\ visual_selection' = r.visual_selection
       /\ ret' = r.ret
       /\ last_call' = "select_file"
       /\ last_arg' = path
       /\ prev' = selection
       /\ UNCHANGED window_height

\* FileTree::collapse_but_root
CollapseButRoot ==
    /\ tree_items' = collapse_but_root(tree_items)
    /\ last_call' = "collapse_but_root"
    /\ last_arg' = 0
    /\ ret' = TRUE
    /\ prev' = selection
    /\ UNCHANGED <<selection, visual_selection, window_height>>

\* FileTree::collapse_recursive
CollapseRecursive ==
    /\ tree_items' = collapse_recursive(tree_items, selection)
    /\ last_call' = "collapse_recursive"
    /\ last_arg' = 0
    /\ ret' = TRUE
    /\ prev' = selection
    /\ UNCHANGED <<selection, visual_selection, window_height>>

\* FileTree::expand_recursive
ExpandRecursive ==
    /\ tree_items' = expand_recursive(tree_items, selection)
    /\ last_call' = "expand_recursive"
    /\ last_arg' = 0
    /\ ret' = TRUE
    /\ prev' = selection
    /\ UNCHANGED <<selection, visual_selection, window_height>>

\* the UI setting FileTree.window_height
SetWindowHeight(h) ==
    /\ window_height' = Some(h)
    /\ last_call' = "set_window_height"
    /\ last_arg' = 0
    /\ ret' = TRUE
    /\ prev' = selection
    /\ UNCHANGED <<tree_items, selection, visual_selection>>

\* the heights the UI sets: at least one row; the unset height of a new
\* tree stands for height 0, which selection_page_updown reads the same way
Heights == 1..MaxHeight

Next ==
    \/ \E dir \in Commands : MoveSelection(dir)
    \/ \E path \in PathArgs : SelectFile(path)
    \/ CollapseButRoot
    \/ CollapseRecursive
    \/ ExpandRecursive
    \/ \E h \in Heights : SetWindowHeight(h)

Spec == Init /\ [][Next]_vars

\* --------------------------------------------------------------- type check
TypeOK ==
    /\ selection = None \/ (Len(selection) = 1 /\ selection[1] \in DOMAIN tree_items)
    /\ ret \in BOOLEAN
    /\ \A i \in DOMAIN tree_items : tree_items[i].visible = Shown(tree_items, i)

\* ------------------------------------------------------------------ claims
\* the absolute index the selection holds, when there is one
Sel == unwrap(selection)

\* the currently visible absolute indices
Visible(items) == {i \in DOMAIN items : items[i].visible}

\* a call of move_selection has just returned
Moved == last_call \in Commands

\* C1: for a tree built from a non-empty path list, selection() is Some in
\* every reachable state; it is None only for an empty tree
C1_SelectionSomeUnlessEmpty ==
    items_len(tree_items) > 0 => is_some(selection)

\* C2: every move_selection call that changes the absolute selection lands
\* on an index that is visible at that moment
C2_MoveLandsOnVisible ==
    [][(last_call' \in Commands /\ selection' # selection)
         => /\ is_some(selection')
            /\ unwrap(selection') \in Visible(tree_items')]_vars

\* C2 witness: a move has left a selection that was hidden (by a collapse
\* that did not move it) and has landed on a visible index
C2_Witness ==
    /\ Moved
    /\ is_some(prev) /\ is_some(selection)
    /\ selection # prev
    /\ unwrap(prev) \notin Visible(tree_items)
    /\ Sel \in Visible(tree_items)

\* C3: if selection() is Some then visual_selection() is Some with
\* index < count, and if selection() is None then visual_selection() is None
C3_VisualIndexBelowCount ==
    /\ is_some(selection)
         => /\ is_some(visual_selection)
            /\ unwrap(visual_selection).index < unwrap(visual_selection).count
    /\ ~is_some(selection) => ~is_some(visual_selection)

\* C3 witness: the cursor was moved to the last visible row of a tree with
\* hidden nodes
C3_Witness ==
    /\ Moved /\ ret
    /\ is_some(selection) /\ is_some(visual_selection)
    /\ unwrap(visual_selection).index + 1 = unwrap(visual_selection).count
    /\ unwrap(visual_selection).index > 0
    /\ Visible(tree_items) # DOMAIN tree_items

\* the fields of node i other than its visibility are the same in both trees
SameButVisible(a, b, i) ==
    /\ a[i].is_path = b[i].is_path
    /\ a[i].collapsed = b[i].collapsed
    /\ a[i].indent = b[i].indent

\* the selected node is a directory that is expanded / collapsed
OnExpandedDir ==
    is_some(selection) /\ tree_items[Sel].is_path /\ ~tree_items[Sel].collapsed
OnCollapsedDir ==
    is_some(selection) /\ tree_items[Sel].is_path /\ tree_items[Sel].collapsed

\* C4: Left on an expanded directory and Right on a collapsed directory
\* return true and leave the absolute selection unchanged; they change only
\* the collapsed flag of the selected directory and the visibility of its
\* descendants, and after Left the directory is collapsed and all its strict
\* descendants are invisible
C4_LeftRightToggleInPlace ==
    [][((last_call' = "Left" /\ OnExpandedDir) \/ (last_call' = "Right" /\ OnCollapsedDir))
         => /\ ret' = TRUE
            /\ selection' = selection
            /\ visual_selection' = visual_selection
            /\ window_height' = window_height
            /\ DOMAIN tree_items' = DOMAIN tree_items
            /\ tree_items'[Sel] =
                  [tree_items[Sel] EXCEPT !.collapsed = (last_call' = "Left")]
            /\ \A i \in DOMAIN tree_items \ {Sel} :
                  IF i \in Descendants(tree_items, Sel)
                  THEN /\ SameButVisible(tree_items', tree_items, i)
                       /\ last_call' = "Left" => ~tree_items'[i].visible
                  ELSE tree_items'[i] = tree_items[i]]_vars

\* C4 witness: Left has collapsed the selected directory in place, hiding a
\* descendant directory that stays expanded
C4_Witness ==
    /\ last_call = "Left" /\ ret
    /\ selection = prev /\ is_some(selection)
    /\ tree_items[Sel].is_path /\ tree_items[Sel].collapsed
    /\ \E d \in Descendants(tree_items, Sel) :
          tree_items[d].is_path /\ ~tree_items[d].collapsed /\ ~tree_items[d].visible

\* the visible indices before i whose indent is strictly smaller than i's
ShallowerBefore(items, i) ==
    {j \in Visible(items) : j < i /\ items[j].indent < items[i].indent}

\* the largest element of a non-empty set of indices
Largest(S) == CHOOSE x \in S : \A y \in S : y <= x

\* the smallest element of a non-empty set of indices
Smallest(S) == CHOOSE x \in S : \A y \in S : x <= y

\* the tree of test_selection_left_parent, with exactly the directories of
\* cs collapsed
IsTestTree4(cs) == tree_items = ItemsNew(TestTree4, cs)

\* C5: Left on a file or an already-collapsed directory moves the selection
\* to the nearest preceding visible index with strictly smaller indent, which
\* is a strict ancestor directory of the node left; when there is none it
\* returns false and the selection is unchanged.  From index 2 of
\* [a/, b/, c, d] three Lefts give the selections 1, 1, 0
C5_LeftSelectsParent ==
    [][/\ (last_call' = "Left" /\ selection = Some(1) /\ IsTestTree4({}))
            => (selection' = Some(1) /\ tree_items' = ItemsNew(TestTree4, {1}))
       /\ (last_call' = "Left" /\ is_some(selection) /\ ~OnExpandedDir)
         => /\ tree_items' = tree_items
            /\ IF ShallowerBefore(tree_items, Sel) # {}
               THEN /\ ret' = TRUE
                    /\ selection' = Some(Largest(ShallowerBefore(tree_items, Sel)))
                    /\ unwrap(selection') \in Ancestors(tree_items, Sel)
                    /\ tree_items[unwrap(selection')].is_path
               ELSE /\ ret' = FALSE
                    /\ selection' = selection
            /\ (selection = Some(2) /\ IsTestTree4({})) => selection' = Some(1)
            /\ (selection = Some(1) /\ IsTestTree4({1})) => selection' = Some(0)]_vars

\* C5 witness: Left has moved the cursor from a hidden node to its nearest
\* visible ancestor, which is not its parent
C5_Witness ==
    /\ last_call = "Left" /\ ret
    /\ is_some(prev) /\ is_some(selection) /\ selection # prev
    /\ Sel \in Ancestors(tree_items, unwrap(prev))
    /\ tree_items[Sel].indent + 1 < tree_items[unwrap(prev)].indent

\* the visible indices after i
VisibleAfter(items, i) == {j \in Visible(items) : j > i}

\* the visible indices before i
VisibleBefore(items, i) == {j \in Visible(items) : j < i}

\* C6: Down moves the selection to the smallest visible absolute index
\* strictly greater than the current one and returns true; when no visible
\* index lies after the current one it returns false and the selection is
\* unchanged
C6_DownNextVisible ==
    [][(last_call' = "Down" /\ is_some(selection))
         => /\ tree_items' = tree_items
            /\ IF VisibleAfter(tree_items, Sel) # {}
               THEN /\ ret' = TRUE
                    /\ selection' = Some(Smallest(VisibleAfter(tree_items, Sel)))
               ELSE /\ ret' = FALSE
                    /\ selection' = selection]_vars

\* C6 witness: Down has skipped the hidden nodes under a collapsed directory
C6_Witness ==
    /\ last_call = "Down" /\ ret
    /\ is_some(prev) /\ is_some(selection)
    /\ Sel > unwrap(prev) + 1
    /\ tree_items[unwrap(prev)].is_path /\ tree_items[unwrap(prev)].collapsed
    /\ \A j \in (unwrap(prev) + 1)..(Sel - 1) : ~tree_items[j].visible

\* C7: Up takes its candidate only from the indices strictly below the
\* current selection: at absolute index 0 there is no candidate, the call
\* returns false and the selection stays 0
C7_UpAtTopReturnsFalse ==
    [][(last_call' = "Up" /\ selection = Some(0))
         => (ret' = FALSE /\ selection' = Some(0))]_vars

\* C8: whenever the current selection is visible and Down changes the
\* selection, an immediately following Up restores the original absolute
\* selection
C8_DownThenUpRestores ==
    [][(/\ last_call = "Down"
        /\ is_some(prev) /\ selection # prev
        /\ unwrap(prev) \in Visible(tree_items)
        /\ last_call' = "Up")
         => (ret' = TRUE /\ selection' = prev)]_vars

\* C8 witness: Down has moved the cursor from a visible collapsed directory
\* over its hidden nodes, the state the following Up starts in
C8_Witness ==
    /\ last_call = "Down" /\ ret
    /\ is_some(prev) /\ is_some(selection) /\ selection # prev
    /\ unwrap(prev) \in Visible(tree_items)
    /\ Sel > unwrap(prev) + 1
    /\ Sel + 1 < items_len(tree_items)

\* the page commands, their direction and their take count k
PageCommands == {"PageDown", "PageUp", "HalfPageDown", "HalfPageUp"}
PageGoesDown(cmd) == cmd \in {"PageDown", "HalfPageDown"}
PageTake(cmd, wh) ==
    IF wh = None THEN 0
    ELSE IF cmd \in {"PageDown", "PageUp"} THEN unwrap(wh) ELSE unwrap(wh) \div 2

\* the visible indices of the directional range of a page command, which
\* starts at and includes the current index
PageRange(items, i, cmd) ==
    IF PageGoesDown(cmd) THEN {v \in Visible(items) : v >= i}
    ELSE {v \in Visible(items) : v <= i}

\* the number of indices of R from i up to j in the direction of cmd
PageSteps(R, i, j, cmd) ==
    IF PageGoesDown(cmd) THEN Cardinality({v \in R : v <= j})
    ELSE Cardinality({v \in R : v >= j})

\* the rank of index i among the visible indices
Rank(items, i) == Cardinality(VisibleBefore(items, i))

Max(a, b) == IF a > b THEN a ELSE b

\* the tree of test_selection_page_updown, fully expanded, window height 3
IsTestTree6 == window_height = Some(3) /\ tree_items = ItemsNew(TestTree6, {})

\* C9: the page and half-page commands land on the last of the first k
\* visible indices of their directional range, which includes the current
\* index, with k = window_height (page), window_height / 2 (half page) and 0
\* when the height is unset; from a visible selection the cursor advances
\* k-1 visible rows, clamped to the last or first visible index; with k = 0
\* the call returns false and the selection is unchanged.  With height 3 on
\* the 6-node tree PageDown, PageDown, PageUp, PageUp from 0 gives 2, 4, 2, 0
C9_PageMoves ==
    [][(last_call' \in PageCommands /\ is_some(selection))
         => LET cmd == last_call'
                k == PageTake(cmd, window_height)
                R == PageRange(tree_items, Sel, cmd)
            IN /\ tree_items' = tree_items
               /\ IF k = 0 \/ R = {}
                  THEN ret' = FALSE /\ selection' = selection
                  ELSE /\ ret' = TRUE
                       /\ unwrap(selection') \in R
                       /\ PageSteps(R, Sel, unwrap(selection'), cmd)
                             = Min(k, Cardinality(R))
               /\ (k >= 1 /\ Sel \in Visible(tree_items))
                    => Rank(tree_items, unwrap(selection')) =
                          IF PageGoesDown(cmd)
                          THEN Min(Rank(tree_items, Sel) + k - 1,
                                   Cardinality(Visible(tree_items)) - 1)
                          ELSE Max(Rank(tree_items, Sel) - (k - 1), 0)
               /\ (cmd = "PageDown" /\ selection = Some(0) /\ IsTestTree6)
                    => selection' = Some(2)
               /\ (cmd = "PageDown" /\ selection = Some(2) /\ IsTestTree6)
                    => selection' = Some(4)
               /\ (cmd = "PageUp" /\ selection = Some(4) /\ IsTestTree6)
                    => selection' = Some(2)
               /\ (cmd = "PageUp" /\ selection = Some(2) /\ IsTestTree6)
                    => selection' = Some(0)]_vars

\* C9 witness: the second PageDown of test_selection_page_updown has moved
\* the cursor from 2 to 4
C9_Witness ==
    /\ IsTestTree6
    /\ last_call = "PageDown" /\ ret
    /\ prev = Some(2) /\ selection = Some(4)
    /\ visual_selection = Some([count |-> 6, index |-> 4])

\* the command resolves a landing index from the current selection
Resolves(cmd) ==
    CASE cmd = "Up" -> {v \in Visible(tree_items) : v <= Max(Sel - 1, 0)} # {}
      [] cmd = "Down" -> VisibleAfter(tree_items, Sel) # {}
      [] cmd = "Left" -> OnExpandedDir \/ ShallowerBefore(tree_items, Sel) # {}
      [] cmd = "Right" ->
            /\ tree_items[Sel].is_path
            /\ tree_items[Sel].collapsed \/ VisibleAfter(tree_items, Sel) # {}
      [] cmd = "Top" -> TRUE
      [] cmd = "End" -> Visible(tree_items) # {}
      [] cmd \in PageCommands ->
            /\ PageTake(cmd, window_height) >= 1
            /\ PageRange(tree_items, Sel, cmd) # {}

\* C10: move_selection returns true exactly when a selection exists and the
\* command resolves a landing index, even one equal to the current index;
\* whenever it returns false, which includes every command issued while the
\* selection is None, the selection, the visual-selection cache, every
\* collapsed flag and every visibility flag are unchanged
C10_FalseMeansNoChange ==
    [][last_call' \in Commands
         => /\ ret' = (is_some(selection) /\ Resolves(last_call'))
            /\ ~is_some(selection) => ret' = FALSE
            /\ ret' = FALSE
                 => UNCHANGED <<tree_items, selection, visual_selection,
                                window_height>>]_vars

\* C10 witness: Top was issued on a non-empty tree without a selection and
\* returned false
C10_Witness ==
    /\ last_call = "Top" /\ ret = FALSE
    /\ selection = None /\ prev = None
    /\ items_len(tree_items) > 0

\* the cache a scan of the tree gives for the selected index i
FreshCache(items, i) ==
    Some([count |-> Cardinality(Visible(items)), index |-> Rank(items, i)])

\* the tree of test_visible_selection, with exactly the directories of cs
\* collapsed
IsTestTree5(cs) == tree_items = ItemsNew(TestTree5, cs)

\* C11: immediately after a move_selection call that changes the absolute
\* selection, and after a select_file call that returns true with a matching
\* path, visual_selection() holds count = the number of visible nodes and
\* index = the rank of the selected node among them; collapsing b/ in
\* [a/, b/, c, c2, d] with Left and then Down gives count 3, index 2
C11_CacheFreshAfterChange ==
    [][/\ ((last_call' \in Commands /\ selection' # selection)
             \/ (last_call' = "select_file" /\ ret' /\ is_some(selection')))
         => visual_selection' = FreshCache(tree_items', unwrap(selection'))
       /\ (last_call' = "Left" /\ selection = Some(1) /\ IsTestTree5({}))
         => (tree_items' = ItemsNew(TestTree5, {1}) /\ selection' = Some(1))
       /\ (last_call' = "Down" /\ selection = Some(1) /\ IsTestTree5({1}))
         => visual_selection' = Some([count |-> 3, index |-> 2])]_vars

\* C11 witness: the Down of test_visible_selection has moved the cursor
\* over the collapsed b/ to d
C11_Witness ==
    /\ IsTestTree5({1})
    /\ last_call = "Down" /\ ret
    /\ prev = Some(1) /\ selection = Some(4)
    /\ visual_selection = Some([count |-> 3, index |-> 2])

\* C12: select_file(path) finds the first node whose full path equals path:
\* if that index differs from the current selection, the selection becomes
\* that index, every ancestor directory of it is expanded so that the node is
\* visible, and the call returns true; if it equals the current selection the
\* call returns false and changes no state, also when the selected node is
\* hidden
C12_SelectFileMatching ==
    [][(last_call' = "select_file" /\ last_arg' \in DOMAIN tree_items)
         => IF selection = Some(last_arg')
            THEN /\ ret' = FALSE
                 /\ UNCHANGED <<tree_items, selection, visual_selection,
                                window_height>>
            ELSE /\ ret' = TRUE
                 /\ selection' = Some(last_arg')
                 /\ \A a \in Ancestors(tree_items', last_arg') :
                       ~tree_items'[a].collapsed
                 /\ last_arg' \in Visible(tree_items')]_vars

\* C12 witness: select_file has moved the cursor from a hidden node to a
\* node two levels deep and made it visible
C12_Witness ==
    /\ last_call = "select_file" /\ ret
    /\ selection = Some(last_arg) /\ is_some(prev) /\ selection # prev
    /\ unwrap(prev) \notin Visible(tree_items)
    /\ Cardinality(Ancestors(tree_items, Sel)) >= 2
    /\ Sel \in Visible(tree_items)

\* C13: Right on an already-expanded directory resolves exactly as Down would
\* from the same state (same resulting selection, same return value), and
\* Right on a file returns false and changes no state
C13_RightOnExpandedIsDown ==
    [][/\ (last_call' = "Right" /\ OnExpandedDir)
         => LET down == move_selection(tree_items, selection, visual_selection,
                                       window_height, "Down")
            IN /\ selection' = down.selection
               /\ ret' = down.ret
               /\ visual_selection' = down.visual_selection
               /\ tree_items' = tree_items
               /\ IF VisibleAfter(tree_items, Sel) # {}
                  THEN selection' = Some(Smallest(VisibleAfter(tree_items, Sel)))
                  ELSE selection' = selection
       /\ (last_call' = "Right" /\ is_some(selection) /\ ~tree_items[Sel].is_path)
         => /\ ret' = FALSE
            /\ UNCHANGED <<tree_items, selection, visual_selection,
                           window_height>>]_vars

\* C13 witness: Right on an expanded directory has moved the cursor to the
\* first node inside it
C13_Witness ==
    /\ last_call = "Right" /\ ret
    /\ is_some(prev) /\ is_some(selection) /\ selection # prev
    /\ tree_items[unwrap(prev)].is_path /\ ~tree_items[unwrap(prev)].collapsed
    /\ Sel = unwrap(prev) + 1

\* the direct children of directory i
Children(items, i) ==
    {d \in Descendants(items, i) : items[d].indent = items[i].indent + 1}

\* Right on a collapsed directory changes the collapsed flag of no other
\* directory, and a nested directory that was collapsed stays collapsed with
\* its descendants invisible
RightExpandsOneLevel ==
    /\ ~tree_items'[Sel].collapsed
    /\ \A i \in DOMAIN tree_items \ {Sel} :
          tree_items'[i].collapsed = tree_items[i].collapsed
    /\ \A n \in Descendants(tree_items, Sel) :
          (tree_items[n].is_path /\ tree_items[n].collapsed)
             => \A d \in Descendants(tree_items, n) : ~tree_items'[d].visible

\* C14 as claimed: Right on a collapsed directory expands only that
\* directory, nested collapsed directories stay collapsed with their
\* descendants invisible, and the direct children of the expanded directory
\* become visible
C14_RightShowsChildren ==
    [][(last_call' = "Right" /\ OnCollapsedDir)
         => /\ RightExpandsOneLevel
            /\ \A c \in Children(tree_items, Sel) : tree_items'[c].visible]_vars

\* C14 as amended: Right on a collapsed directory expands only that
\* directory, nested collapsed directories stay collapsed with their
\* descendants invisible, and the direct children of the expanded directory
\* become visible when the directory itself is visible
C14_RightShowsChildrenOfVisible ==
    [][(last_call' = "Right" /\ OnCollapsedDir)
         => /\ RightExpandsOneLevel
            /\ Sel \in Visible(tree_items)
                 => \A c \in Children(tree_items, Sel) : tree_items'[c].visible]_vars

\* C14 witness: Right has expanded a visible directory in place; its children
\* are visible and a nested directory is still collapsed
C14_Witness ==
    /\ last_call = "Right" /\ ret
    /\ is_some(selection) /\ selection = prev
    /\ Sel \in Visible(tree_items)
    /\ tree_items[Sel].is_path /\ ~tree_items[Sel].collapsed
    /\ \A c \in Children(tree_items, Sel) : tree_items[c].visible
    /\ \E n \in Children(tree_items, Sel) :
          /\ tree_items[n].is_path /\ tree_items[n].collapsed
          /\ \A d \in Descendants(tree_items, n) : ~tree_items[d].visible

\* the absolute indices FileTreeItems::iterate yields from the start of the
\* tree
IterateAll(items) ==
    {iterate(items, 0, items_len(items))[k] :
        k \in 1..Len(iterate(items, 0, items_len(items)))}

\* C15: collapsing then expanding is a round trip on visibility: from any
\* reachable state whose selection is an expanded directory, Left makes every
\* strict descendant invisible and absent from iterate output, and an
\* immediately following Right restores the collapsed flag and the
\* visibility of every node to what they were before the Left
C15_LeftRightRoundTrip ==
    [][(last_call' = "Left" /\ OnExpandedDir)
         => /\ \A d \in Descendants(tree_items, Sel) :
                  /\ ~tree_items'[d].visible
                  /\ d \notin IterateAll(tree_items')
            /\ tree_items'[Sel].collapsed
            /\ LET right == move_selection(tree_items', selection',
                                           visual_selection', window_height',
                                           "Right")
               IN /\ right.items = tree_items
                  /\ right.selection = selection
                  /\ right.ret = TRUE]_vars

\* C15 witness: Left has collapsed a directory that holds a collapsed and an
\* expanded directory, the state the following Right starts in
C15_Witness ==
    /\ last_call = "Left" /\ ret
    /\ is_some(selection) /\ selection = prev
    /\ tree_items[Sel].is_path /\ tree_items[Sel].collapsed
    /\ \E d \in Descendants(tree_items, Sel) :
          tree_items[d].is_path /\ ~tree_items[d].collapsed
    /\ \E d \in Descendants(tree_items, Sel) :
          tree_items[d].is_path /\ tree_items[d].collapsed
    /\ IterateAll(tree_items) \cap Descendants(tree_items, Sel) = {}

\* C16: with a selection present, Top always returns true and leaves the
\* selection at absolute index 0, and End always returns true and leaves the
\* selection at the largest currently visible absolute index
C16_TopAndEnd ==
    [][/\ (last_call' = "Top" /\ is_some(selection))
         => (ret' = TRUE /\ selection' = Some(0) /\ tree_items' = tree_items)
       /\ (last_call' = "End" /\ is_some(selection))
         => /\ ret' = TRUE
            /\ Visible(tree_items) # {}
            /\ selection' = Some(Largest(Visible(tree_items)))
            /\ tree_items' = tree_items]_vars

\* C16 witness: End has moved the cursor from a hidden node to the last
\* visible index, which is not the last index of the tree
C16_Witness ==
    /\ last_call = "End" /\ ret
    /\ is_some(prev) /\ is_some(selection) /\ selection # prev
    /\ unwrap(prev) \notin Visible(tree_items)
    /\ Sel + 1 < items_len(tree_items)
    /\ Sel = Largest(Visible(tree_items))

\* C17: after collapse_but_root on a non-empty tree, also one with several
\* root-level entries, every directory is collapsed except the root-level
\* entry at absolute index 0, which is expanded, and the selection is
\* unchanged; on an empty tree collapse_but_root changes nothing
C17_CollapseButRootCollapsesAll ==
    [][last_call' = "collapse_but_root"
         => /\ selection' = selection
            /\ IF items_len(tree_items) = 0
               THEN tree_items' = tree_items
               ELSE \A i \in DOMAIN tree_items :
                       tree_items[i].is_path
                          => tree_items'[i].collapsed = (i # 0)]_vars

\* the helpers that collapse and expand directories
Helpers == {"collapse_but_root", "collapse_recursive", "expand_recursive"}

\* C18: when move_selection resolves a landing index equal to the current
\* selection, the visual-selection cache is left as it was, also when the
\* call changed the set of visible nodes; collapse_but_root,
\* collapse_recursive and expand_recursive never modify the selection or the
\* cache
C18_CacheUntouchedInPlace ==
    [][/\ (last_call' \in Commands /\ ret' /\ selection' = selection)
         => visual_selection' = visual_selection
       /\ last_call' \in Helpers
         => (selection' = selection /\ visual_selection' = visual_selection)]_vars

\* C18 witness: Left has collapsed the selected directory in place and the
\* cache still counts the nodes it has hidden
C18_Witness ==
    /\ last_call = "Left" /\ ret
    /\ is_some(selection) /\ selection = prev
    /\ tree_items[Sel].is_path /\ tree_items[Sel].collapsed
    /\ is_some(visual_selection)
    /\ unwrap(visual_selection).count > Cardinality(Visible(tree_items))

\* the cache agrees with the tree: count is the number of visible nodes and,
\* when the selected node is visible, index is its rank among them
CacheAgrees ==
    is_some(selection)
       => /\ is_some(visual_selection)
          /\ unwrap(visual_selection).count = Cardinality(Visible(tree_items))
          /\ Sel \in Visible(tree_items)
               => unwrap(visual_selection).index = Rank(tree_items, Sel)

\* C19 as claimed: in every state reachable by the public operations with a
\* selection present, the cached visual_selection() agrees with the current
\* tree
C19_CacheAlwaysAgrees == CacheAgrees

\* C19 as amended: the cached visual_selection() agrees with the current
\* tree after construction and after every call that changes the selection,
\* and a call that changes neither the selection nor the tree keeps the
\* agreement; a call that hides or shows nodes without moving the selection
\* can leave the cache stale
C19_CacheAgreesUntilVisibilityChanges ==
    [][/\ last_call = "new" => CacheAgrees
       /\ ((selection' # selection)
            \/ (CacheAgrees /\ selection' = selection /\ tree_items' = tree_items))
         => CacheAgrees']_vars

\* C19 witness: a select_file call that found the selected path has left
\* the fresh cache of an earlier move in place, in a tree with hidden nodes
C19_Witness ==
    /\ last_call = "select_file" /\ ret = FALSE
    /\ is_some(selection) /\ selection = Some(last_arg)
    /\ CacheAgrees
    /\ Sel \in Visible(tree_items)
    /\ unwrap(visual_selection).index > 0
    /\ Visible(tree_items) # DOMAIN tree_items

\* the visual indices iterate is called with: every rank, and two out of
\* range
VisualArgs == 0..(items_len(tree_items) + 1)

\* the amounts iterate is called with: none, one, two, and all nodes
Amounts == {0, 1, 2, items_len(tree_items)}

\* C20: visual/absolute translation is a round trip: for every visible node
\* at absolute index a of rank r among the visible nodes,
\* visual_index_to_absolute(r) = a, and for every r >= the number of visible
\* nodes it returns None; iterate(start_visual, max) yields at most max
\* pairs, all visible, in ascending absolute order, beginning at the node of
\* visual rank start_visual, and at absolute index 0 when start_visual is out
\* of range
C20_VisualAbsoluteRoundTrip ==
    /\ \A a \in Visible(tree_items) :
          visual_index_to_absolute(tree_items, Rank(tree_items, a)) = Some(a)
    /\ \A r \in VisualArgs :
          r >= Cardinality(Visible(tree_items))
             => visual_index_to_absolute(tree_items, r) = None
    /\ \A sv \in VisualArgs : \A max \in Amounts :
          LET out == FileTreeIterate(tree_items, selection, sv, max)
          IN /\ Len(out) <= max
             /\ \A k \in 1..Len(out) : out[k].index \in Visible(tree_items)
             /\ \A k \in 1..(Len(out) - 1) : out[k].index < out[k + 1].index
             /\ (max > 0 /\ items_len(tree_items) > 0)
                  => /\ Len(out) > 0
                     /\ IF sv < Cardinality(Visible(tree_items))
                        THEN Rank(tree_items, out[1].index) = sv
                        ELSE out[1].index = 0

\* C20 witness: Left has hidden the nodes of a directory that lies before a
\* visible node, whose rank is therefore smaller than its absolute index,
\* and which iterate starts at
C20_Witness ==
    \E a \in Visible(tree_items) :
        /\ last_call = "Left" /\ ret /\ selection = prev
        /\ Rank(tree_items, a) < a
        /\ Rank(tree_items, a) > 0
        /\ visual_index_to_absolute(tree_items, Rank(tree_items, a)) = Some(a)
        /\ FileTreeIterate(tree_items, selection, Rank(tree_items, a), 1)[1].index = a

====
